---------------------------- MODULE Spec2Model ----------------------------
(***************************************************************************)
(* A model of FunctionCalling.ipynb: the two helpers get_schema and        *)
(* read_data, the two orchestrators get_result_v1 and get_result_v2, the   *)
(* single-run test cells and the two evaluation loops.                     *)
(*                                                                         *)
(* The language model is an oracle: every model call may answer with any   *)
(* response of the set Responses.  A Python value that may be "a result or *)
(* an exception" is an outcome record [kind, exc, sql, df].                *)
(***************************************************************************)
EXTENDS Integers, Sequences, FiniteSets, TLC

(***************************************************************************)
(* Bounds of the model.                                                    *)
(***************************************************************************)
\* number of rows of eval_df (eval_questions.csv has 19)
NCases == 2
\* number of rows stored in table Orders when the notebook starts
InitialOrders == 3
\* largest number of rows, and of columns, of a grid handed to the comparison
MaxDim == 2
\* connections the process may hold open at once
MaxOpenConns == 3

(***************************************************************************)
(* The database, northwind.db, reduced to one table.                       *)
(***************************************************************************)
TableNames == {"Orders"}

Columns(t) == <<"OrderID", "ShipCountry">>

\* the database file: which tables exist and how many rows Orders holds
DbStates == [tables : SUBSET TableNames, nOrders : 0..(InitialOrders + 1)]

InitialDb == [tables |-> TableNames, nOrders |-> InitialOrders]

(***************************************************************************)
(* SQL texts.  The texts the model or the evaluation file may hold, and    *)
(* what SQLite does with each.                                             *)
(***************************************************************************)
SqlSelect == {"SELECT 1", "SELECT 1 AS one", "SELECT 2", "SELECT 1, 2",
              "SELECT 1, 2, 3", "SELECT COUNT(*) FROM Orders"}
SqlDml    == {"INSERT INTO Orders DEFAULT VALUES"}
SqlDdl    == {"DROP TABLE Orders"}
SqlBroken == {"SELEC 1"}
SqlTexts  == SqlSelect \cup SqlDml \cup SqlDdl \cup SqlBroken

\* statements that name table Orders fail when the table does not exist
NeedsOrders(sql) ==
    sql \in {"SELECT COUNT(*) FROM Orders", "INSERT INTO Orders DEFAULT VALUES",
             "DROP TABLE Orders"}

(***************************************************************************)
(* Data frames: column labels and a grid of cells.                         *)
(***************************************************************************)
NoDf == [columns |-> <<>>, rows |-> <<>>]

Frame(cols, rows) == [columns |-> cols, rows |-> rows]

\* the frame a SELECT of SqlSelect yields on database d
SelectResult(sql, d) ==
    CASE sql = "SELECT 1"        -> Frame(<<"1">>, << <<1>> >>)
      [] sql = "SELECT 1 AS one" -> Frame(<<"one">>, << <<1>> >>)
      [] sql = "SELECT 2"        -> Frame(<<"2">>, << <<2>> >>)
      [] sql = "SELECT 1, 2"     -> Frame(<<"1", "2">>, << <<1, 2>> >>)
      [] sql = "SELECT 1, 2, 3"  -> Frame(<<"1", "2", "3">>, << <<1, 2, 3>> >>)
      [] sql = "SELECT COUNT(*) FROM Orders"
                                 -> Frame(<<"COUNT(*)">>, << <<d.nOrders>> >>)
      [] OTHER                   -> NoDf

(***************************************************************************)
(* Outcomes of a Python call: a returned pair, a returned None, a returned *)
(* frame, or a raised exception.                                           *)
(***************************************************************************)
Returned(sql, df) == [kind |-> "pair", exc |-> "", sql |-> sql, df |-> df]
ReturnedDf(df)    == [kind |-> "df", exc |-> "", sql |-> "", df |-> df]
ReturnedNone      == [kind |-> "none", exc |-> "", sql |-> "", df |-> NoDf]
Raised(e)         == [kind |-> "raise", exc |-> e, sql |-> "", df |-> NoDf]
NoOutcome         == [kind |-> "pending", exc |-> "", sql |-> "", df |-> NoDf]


(***************************************************************************)
(* get_schema: the tables of sqlite_master, each with its column names.    *)
(* The schema is a function from table name to column sequence.            *)
(***************************************************************************)
get_schema(d) == [t \in d.tables |-> Columns(t)]

\* str(schema): Python's rendering of the schema dictionary
PyStr(schema) ==
    IF DOMAIN schema = {} THEN "{}"
    ELSE "{'Orders': ['OrderID', 'ShipCountry']}"

(***************************************************************************)
(* read_data: connect, pd.read_sql_query(query, conn), close.  Yields the  *)
(* outcome and the database afterwards.  pandas executes the text on a     *)
(* cursor and builds the frame from cursor.description:                    *)
(*  - a text SQLite rejects raises DatabaseError;                          *)
(*  - INSERT/UPDATE/DELETE run inside the implicit transaction sqlite3     *)
(*    opens; description is None, so pandas raises TypeError; nothing      *)
(*    commits, so the change is rolled back with the connection;           *)
(*  - DDL runs in autocommit mode and takes effect at once, then the same  *)
(*    TypeError is raised.                                                 *)
(***************************************************************************)
read_data_committing(query, d) ==
    IF query \in SqlBroken \/ (NeedsOrders(query) /\ "Orders" \notin d.tables)
    THEN [out |-> Raised("DatabaseError"), db |-> d]
    ELSE IF query \in SqlSelect
    THEN [out |-> ReturnedDf(SelectResult(query, d)), db |-> d]
    ELSE IF query \in SqlDml
    THEN [out |-> Raised("TypeError"), db |-> [d EXCEPT !.nOrders = @ + 1]]
    ELSE [out |-> Raised("TypeError"),
          db  |-> [d EXCEPT !.tables = @ \ {"Orders"}, !.nOrders = 0]]

read_data(query, d) ==
    IF query \in SqlBroken \/ (NeedsOrders(query) /\ "Orders" \notin d.tables)
    THEN [out |-> Raised("DatabaseError"), db |-> d]
    ELSE IF query \in SqlSelect
    THEN [out |-> ReturnedDf(SelectResult(query, d)), db |-> d]
    ELSE IF query \in SqlDml
    THEN [out |-> Raised("TypeError"), db |-> d]
    ELSE [out |-> Raised("TypeError"),
          db  |-> [d EXCEPT !.tables = @ \ {"Orders"}, !.nOrders = 0]]

(***************************************************************************)
(* (a.to_numpy() == b.to_numpy()).all(): to_numpy drops the column labels, *)
(* == broadcasts the two grids (a dimension of 1 stretches) and raises     *)
(* when the shapes cannot be broadcast; all() is the conjunction.          *)
(***************************************************************************)
to_numpy(df) == df.rows

Shape(df) == <<Len(df.rows), Len(df.columns)>>

Broadcastable(s1, s2) ==
    \A k \in 1..2 : s1[k] = s2[k] \/ s1[k] = 1 \/ s2[k] = 1

BroadcastDim(m, n) == IF m = 1 THEN n ELSE m

\* cell (i, j) of the grid of df stretched to the broadcast shape
CellAt(df, i, j) ==
    to_numpy(df)[IF Shape(df)[1] = 1 THEN 1 ELSE i][IF Shape(df)[2] = 1 THEN 1 ELSE j]

CompareRaises(a, b) == ~Broadcastable(Shape(a), Shape(b))

\* a NULL that pd.read_sql_query read into a numeric column: the cell is the
\* float NaN, which no cell equals under ==, NaN itself included
NaN == -1

CellEq(x, y) == x # NaN /\ y # NaN /\ x = y

CompareAll(a, b) ==
    \A i \in 1..BroadcastDim(Shape(a)[1], Shape(b)[1]) :
        \A j \in 1..BroadcastDim(Shape(a)[2], Shape(b)[2]) :
            CellEq(CellAt(a, i, j), CellAt(b, i, j))

(***************************************************************************)
(* Tool-invocation requests and model responses.  The argument text of a   *)
(* request is JSON text: either not well formed, or an object with members.*)
(***************************************************************************)
ArgObj(members) == [wellformed |-> TRUE, members |-> members]
ArgsQuery(sql)  == ArgObj({<<"query", sql>>})
ArgsEmpty       == ArgObj({})
ArgsNoQuery     == ArgObj({<<"sql", "SELECT 1">>})
ArgsBad         == [wellformed |-> FALSE, members |-> {}]

\* json.loads(arguments)['query']
json_loads_query(arguments) ==
    IF ~arguments.wellformed THEN Raised("JSONDecodeError")
    ELSE IF ~\E m \in arguments.members : m[1] = "query" THEN Raised("KeyError")
    ELSE [kind |-> "str", exc |-> "",
          sql |-> (CHOOSE m \in arguments.members : m[1] = "query")[2],
          df |-> NoDf]

ToolCall(id, name, arguments) ==
    [id |-> id, function |-> [name |-> name, arguments |-> arguments]]

\* the id of the k-th request of the r-th response of a run
CallId(r, k) ==
    CASE r = 1 /\ k = 1 -> "call_1a"
      [] r = 1 /\ k = 2 -> "call_1b"
      [] r = 2 /\ k = 1 -> "call_2a"
      [] OTHER          -> "call_2b"

ReadArgs == {ArgsQuery(s) : s \in SqlTexts} \cup {ArgsEmpty, ArgsNoQuery, ArgsBad}

FirstCalls(r) ==
    {ToolCall(CallId(r, 1), "get_schema", ArgsEmpty),
     ToolCall(CallId(r, 1), "get_weather", ArgsEmpty)}
    \cup {ToolCall(CallId(r, 1), "read_data", a) : a \in ReadArgs}

LaterCalls(r) ==
    {ToolCall(CallId(r, 2), "get_schema", ArgsEmpty),
     ToolCall(CallId(r, 2), "read_data", ArgsQuery("DROP TABLE Orders"))}

\* response.choices[0].message; tool_calls = <<>> stands for tool_calls = None
AssistantMessage(calls) ==
    [role |-> "assistant", content |-> <<>>, tool_calls |-> calls,
     tool_call_id |-> "", name |-> ""]

\* every response the r-th model call of a run may return
Responses(r) ==
    {AssistantMessage(<<>>)}
    \cup {AssistantMessage(<<c>>) : c \in FirstCalls(r)}
    \cup {AssistantMessage(<<c, l>>) : c \in FirstCalls(r), l \in LaterCalls(r)}

Message(role, content) ==
    [role |-> role, content |-> content, tool_calls |-> <<>>,
     tool_call_id |-> "", name |-> ""]

ToolMessage(id, name, content) ==
    [role |-> "tool", content |-> content, tool_calls |-> <<>>,
     tool_call_id |-> id, name |-> name]

(***************************************************************************)
(* The prompts and the questions.                                          *)
(***************************************************************************)
\* the f-string of SYSTEM_PROMPT_v1 around a schema text; a content is a
\* tuple of text pieces
PromptV1(schemaText) ==
    <<"The user will ask a question about the database with the following schema:",
      schemaText,
      "Provide a SQL query answering the question. Avoid ambiguous column names.">>

SYSTEM_PROMPT_v2 ==
    <<"The user will ask a question about the database.",
      "First, get the schema of the database.",
      "Then, provide a SQL query answering the question. Avoid ambiguous column names.">>

\* the questions of the test cells
TestQuestions == {"How many orders were shipped to Brazil?",
                  "How many customers ordered more than 20 units of products?"}

\* the Question and Answer columns of the rows eval_questions.csv may hold
EvalRows ==
    {[Question |-> "How many orders were shipped to Brazil?",
      Answer   |-> "SELECT COUNT(*) FROM Orders"],
     [Question |-> "Create a report that shows the CustomerID in lowercase",
      Answer   |-> "SELECT 1, 2"],
     [Question |-> "Create a report that shows the CategoryName",
      Answer   |-> "SELEC 1"]}

ToolsV1 == {"read_data"}
ToolsV2 == {"get_schema", "read_data"}


(***************************************************************************)
(* State.                                                                  *)
(***************************************************************************)
VARIABLES
    db,               \* northwind.db
    SYSTEM_PROMPT_v1, \* the module-level prompt constant, built once
    question,         \* the module-level variable the test cells assign
    eval_df,          \* the rows of eval_questions.csv
    cell,             \* the cell running or last run: "setup", "test", "eval"
    status,           \* of that cell: "running", "done", "error"
    get_result,       \* the orchestrator under test: "v1" or "v2"
    index,            \* the evaluation loop's position in eval_df, from 1
    n_correct,        \* the evaluation loop's counter
    df_true,          \* the ground truth of the current case
    printed,          \* what the evaluation cell printed: <<n_correct, len>>
    pc,               \* the orchestrator: "none", "v1_wait", "v2_wait1",
                      \* "v2_wait2", "ended"
    user_question,    \* the orchestrator's argument
    messages,         \* the orchestrator's local conversation
    outcome,          \* what the orchestrator returned or raised
    trace,            \* history: model calls and tool executions of the run
    visits,           \* history: how often the loop body began for each case
    asked,            \* history: the question passed to get_result per case
    n_equal,          \* history: cases whose result grid equals the truth
    ddlExecuted,      \* history: read_data was handed a DDL statement
    cmp_left,         \* the comparison cell: the frame left of ==
    cmp_right,        \* the comparison cell: the frame right of ==
    cmp_value,        \* what the cell showed: "True", "False", "raise"
    open_conns,       \* sqlite3 connections to northwind.db not yet closed,
                      \* oldest first, each with the call that opened it
    last_call         \* the helper called last, directly: [fn, query, kind]

vars == <<db, SYSTEM_PROMPT_v1, question, eval_df, cell, status, get_result,
          index, n_correct, df_true, printed, pc, user_question, messages,
          outcome, trace, visits, asked, n_equal, ddlExecuted,
          cmp_left, cmp_right, cmp_value, open_conns, last_call>>

cmpVars  == <<cmp_left, cmp_right, cmp_value>>
connVars == <<open_conns, last_call>>

nbVars   == <<cell, status, get_result, index, n_correct, df_true, printed>>
runVars  == <<pc, user_question, messages, outcome, trace>>
histVars == <<visits, asked, n_equal>>

Event(ev, sql, msgs, tools) ==
    [ev |-> ev, sql |-> sql, messages |-> msgs, tools |-> tools]

ModelCall(msgs, tools) == Event("model_call", "", msgs, tools)
SchemaRead             == Event("get_schema", "", <<>>, {})
SqlRun(sql)            == Event("read_data", sql, <<>>, {})

NoHelperCall == [fn |-> "", query |-> "", kind |-> ""]

\* the notebook after its definition cells ran, before any test cell
SetupDone ==
    /\ db = InitialDb
    /\ SYSTEM_PROMPT_v1 = PromptV1(PyStr(get_schema(InitialDb)))
    /\ cell = "setup"
    /\ status = "done"
    /\ get_result = "v1"
    /\ index = 1
    /\ n_correct = 0
    /\ df_true = NoDf
    /\ printed = <<>>
    /\ pc = "none"
    /\ user_question = ""
    /\ messages = <<>>
    /\ outcome = NoOutcome
    /\ trace = <<>>
    /\ visits = [i \in 1..NCases |-> 0]
    /\ asked = [i \in 1..NCases |-> ""]
    /\ n_equal = 0
    /\ ddlExecuted = FALSE

Init ==
    /\ SetupDone
    /\ question \in TestQuestions
    /\ eval_df \in [1..NCases -> EvalRows]
    /\ cmp_left = NoDf
    /\ cmp_right = NoDf
    /\ cmp_value = "none"
    /\ open_conns = <<>>
    /\ last_call = NoHelperCall

(***************************************************************************)
(* The orchestrators.                                                      *)
(***************************************************************************)
Compose_carrying(system_prompt, q) ==
    <<Message("system", system_prompt), Message("user", <<q>>),
      Message("assistant", <<"SELECT 1">>)>>

\* the two-message conversation both orchestrators start from
Compose(system_prompt, q) ==
    <<Message("system", system_prompt), Message("user", <<q>>)>>

\* response_message.tool_calls[0]: subscripting None raises TypeError
NoCall == ToolCall("", "", ArgsEmpty)

tool_calls_0_lenient(response_message) ==
    IF response_message.tool_calls = <<>>
    THEN [exc |-> "", call |-> NoCall]
    ELSE [exc |-> "", call |-> response_message.tool_calls[1]]

tool_calls_last(response_message) ==
    IF response_message.tool_calls = <<>>
    THEN [exc |-> "TypeError", call |-> NoCall]
    ELSE [exc  |-> "",
          call |-> response_message.tool_calls[Len(response_message.tool_calls)]]

tool_calls_0(response_message) ==
    IF response_message.tool_calls = <<>>
    THEN [exc |-> "TypeError", call |-> NoCall]
    ELSE [exc |-> "", call |-> response_message.tool_calls[1]]

read_data_branch_retrying(tool_call, d) ==
    LET q == json_loads_query(tool_call.function.arguments)
        r == read_data(q.sql, d)
    IN  IF q.kind = "raise"
        THEN [out |-> q, db |-> d, events |-> <<>>]
        ELSE [out    |-> IF r.out.kind = "raise" THEN r.out
                         ELSE Returned(q.sql, r.out.df),
              db     |-> r.db,
              events |-> <<SqlRun(q.sql), SqlRun(q.sql)>>]

\* the body of `if function_name == "read_data":` -- parse the arguments,
\* run the query, return the pair; [out, db, events]
read_data_branch(tool_call, d) ==
    LET q == json_loads_query(tool_call.function.arguments)
        r == read_data(q.sql, d)
    IN  IF q.kind = "raise"
        THEN [out |-> q, db |-> d, events |-> <<>>]
        ELSE [out    |-> IF r.out.kind = "raise" THEN r.out
                         ELSE Returned(q.sql, r.out.df),
              db     |-> r.db,
              events |-> <<SqlRun(q.sql)>>]

\* from tool_calls[0] to the end of get_result_v1, and likewise the inner
\* part of get_result_v2 after its second response; a function that falls
\* off its end returns None
final_dispatch(response_message, d) ==
    LET first == tool_calls_0(response_message)
    IN  IF first.exc # ""
        THEN [out |-> Raised(first.exc), db |-> d, events |-> <<>>]
        ELSE IF first.call.function.name = "read_data"
        THEN read_data_branch(first.call, d)
        ELSE [out |-> ReturnedNone, db |-> d, events |-> <<>>]

\* get_result_v1(q) or get_result_v2(q) up to its first model call
BeginRun(v, q) ==
    /\ user_question' = q
    /\ outcome' = NoOutcome
    /\ IF v = "v1"
       THEN /\ messages' = Compose(SYSTEM_PROMPT_v1, q)
            /\ trace' = <<ModelCall(Compose(SYSTEM_PROMPT_v1, q), ToolsV1)>>
            /\ pc' = "v1_wait"
       ELSE /\ messages' = Compose(SYSTEM_PROMPT_v2, q)
            /\ trace' = <<ModelCall(Compose(SYSTEM_PROMPT_v2, q), ToolsV2)>>
            /\ pc' = "v2_wait1"

IsDdl(events) == \E k \in 1..Len(events) : events[k].sql \in SqlDdl

\* get_result_v1 from the model's response to its return
V1Dispatch(resp) ==
    /\ pc = "v1_wait"
    /\ LET res == final_dispatch(resp, db)
       IN  /\ messages' = Append(messages, resp)
           /\ outcome' = res.out
           /\ db' = res.db
           /\ trace' = trace \o res.events
           /\ ddlExecuted' = (ddlExecuted \/ IsDdl(res.events))
    /\ pc' = "ended"
    /\ UNCHANGED <<cmpVars, connVars>>
    /\ UNCHANGED <<SYSTEM_PROMPT_v1, question, eval_df, user_question>>
    /\ UNCHANGED <<nbVars, histVars>>

\* the tool-role message that carries the schema back to the model
schema_message_uncorrelated(tool_call, schema) ==
    ToolMessage("", tool_call.function.name, <<PyStr(schema)>>)

schema_message(tool_call, schema) ==
    ToolMessage(tool_call.id, tool_call.function.name, <<PyStr(schema)>>)

\* get_result_v2 from the model's first response to its second model call,
\* or to its return when the first request does not name get_schema
V2FirstDispatch(resp) ==
    /\ pc = "v2_wait1"
    /\ LET first == tool_calls_0(resp)
           sent  == Append(Append(messages, resp),
                           schema_message(first.call, get_schema(db)))
       IN  IF first.exc # ""
           THEN /\ messages' = Append(messages, resp)
                /\ outcome' = Raised(first.exc)
                /\ pc' = "ended"
                /\ trace' = trace
           ELSE IF first.call.function.name = "get_schema"
           THEN /\ messages' = sent
                /\ outcome' = outcome
                /\ pc' = "v2_wait2"
                /\ trace' = trace \o <<SchemaRead, ModelCall(sent, ToolsV2)>>
           ELSE /\ messages' = Append(messages, resp)
                /\ outcome' = ReturnedNone
                /\ pc' = "ended"
                /\ trace' = trace
    /\ UNCHANGED <<cmpVars, connVars>>
    /\ UNCHANGED <<db, SYSTEM_PROMPT_v1, question, eval_df, user_question,
                   ddlExecuted>>
    /\ UNCHANGED <<nbVars, histVars>>

\* get_result_v2 from the model's second response to its return
V2SecondDispatch(resp) ==
    /\ pc = "v2_wait2"
    /\ LET res == final_dispatch(resp, db)
       IN  /\ messages' = Append(messages, resp)
           /\ outcome' = res.out
           /\ db' = res.db
           /\ trace' = trace \o res.events
           /\ ddlExecuted' = (ddlExecuted \/ IsDdl(res.events))
    /\ pc' = "ended"
    /\ UNCHANGED <<cmpVars, connVars>>
    /\ UNCHANGED <<SYSTEM_PROMPT_v1, question, eval_df, user_question>>
    /\ UNCHANGED <<nbVars, histVars>>

\* the orchestrator's frame is gone once the caller has its outcome
EndRun ==
    /\ pc' = "none"
    /\ user_question' = ""
    /\ messages' = <<>>
    /\ outcome' = NoOutcome
    /\ trace' = <<>>

(***************************************************************************)
(* The test cells: question = ...; sql, df = get_result_vN(question).      *)
(* A cell that calls get_result_v1 and then get_result_v2 with the same    *)
(* question is two such steps.                                             *)
(***************************************************************************)
TestCell(q, v) ==
    /\ status # "running"
    /\ cell' = "test"
    /\ status' = "running"
    /\ question' = q
    /\ BeginRun(v, q)
    /\ UNCHANGED <<cmpVars, connVars>>
    /\ UNCHANGED <<db, SYSTEM_PROMPT_v1, eval_df, get_result, index, n_correct,
                   df_true, printed, ddlExecuted>>
    /\ UNCHANGED histVars

\* unpacking the returned value: None cannot be unpacked (TypeError), and an
\* exception of the orchestrator ends the cell
TestCellEnd ==
    /\ cell = "test"
    /\ status = "running"
    /\ pc = "ended"
    /\ status' = IF outcome.kind = "pair" THEN "done" ELSE "error"
    /\ EndRun
    /\ UNCHANGED <<cmpVars, connVars>>
    /\ UNCHANGED <<db, SYSTEM_PROMPT_v1, question, eval_df, cell, get_result,
                   index, n_correct, df_true, printed, ddlExecuted>>
    /\ UNCHANGED histVars

(***************************************************************************)
(* The evaluation cells.                                                   *)
(***************************************************************************)
\* get_result = get_result_vN; n_correct = 0; the loop is about to start
EvalStart(v) ==
    /\ status # "running"
    /\ cell' = "eval"
    /\ status' = "running"
    /\ get_result' = v
    /\ n_correct' = 0
    /\ index' = 1
    /\ printed' = <<>>
    /\ visits' = [i \in 1..NCases |-> 0]
    /\ asked' = [i \in 1..NCases |-> ""]
    /\ n_equal' = 0
    /\ UNCHANGED <<cmpVars, connVars>>
    /\ UNCHANGED <<db, SYSTEM_PROMPT_v1, question, eval_df, df_true, ddlExecuted>>
    /\ UNCHANGED runVars

\* the loop body up to the orchestrator's first model call: the reference
\* query runs outside the try, so its exception ends the cell
EvalCaseBegin ==
    /\ cell = "eval"
    /\ status = "running"
    /\ pc = "none"
    /\ index <= Len(eval_df)
    /\ LET query == eval_df[index].Answer
           r     == read_data(query, db)
       IN  /\ db' = r.db
           /\ ddlExecuted' = (ddlExecuted \/ query \in SqlDdl)
           /\ visits' = [visits EXCEPT ![index] = @ + 1]
           /\ IF r.out.kind = "raise"
              THEN /\ status' = "error"
                   /\ UNCHANGED <<df_true, asked>>
                   /\ UNCHANGED runVars
              ELSE /\ status' = status
                   /\ df_true' = r.out.df
                   /\ asked' = [asked EXCEPT ![index] = question]
                   /\ BeginRun(get_result, question)
    /\ UNCHANGED <<cmpVars, connVars>>
    /\ UNCHANGED <<SYSTEM_PROMPT_v1, question, eval_df, cell, get_result, index,
                   n_correct, printed, n_equal>>

\* the try body after get_result returned: unpacking (None raises
\* TypeError), the comparison (its value is dropped), n_correct += 1
try_body_always_counts(out, truth) == TRUE

try_body_counts(out, truth) ==
    /\ out.kind = "pair"
    /\ ~CompareRaises(truth, out.df)

\* the result grid equals the ground truth cell by cell
FullyEqual(a, b) == Shape(a) = Shape(b) /\ to_numpy(a) = to_numpy(b)

\* the rest of the loop body: the try, the except, the next iteration
EvalCaseScore ==
    /\ cell = "eval"
    /\ status = "running"
    /\ pc = "ended"
    /\ n_correct' = IF try_body_counts(outcome, df_true)
                    THEN n_correct + 1 ELSE n_correct
    /\ n_equal' = IF outcome.kind = "pair" /\ FullyEqual(df_true, outcome.df)
                  THEN n_equal + 1 ELSE n_equal
    /\ index' = index + 1
    /\ EndRun
    /\ UNCHANGED <<cmpVars, connVars>>
    /\ UNCHANGED <<db, SYSTEM_PROMPT_v1, question, eval_df, cell, status,
                   get_result, df_true, printed, visits, asked, ddlExecuted>>

\* print(f"Number of correct responses: {n_correct}/{len(eval_df)}")
EvalEnd ==
    /\ cell = "eval"
    /\ status = "running"
    /\ pc = "none"
    /\ index > Len(eval_df)
    /\ printed' = <<n_correct, Len(eval_df)>>
    /\ status' = "done"
    /\ UNCHANGED <<cmpVars, connVars>>
    /\ UNCHANGED <<db, SYSTEM_PROMPT_v1, question, eval_df, cell, get_result,
                   index, n_correct, df_true, ddlExecuted>>
    /\ UNCHANGED <<runVars, histVars>>

Next ==
    \/ \E q \in TestQuestions, v \in {"v1", "v2"} : TestCell(q, v)
    \/ TestCellEnd
    \/ \E v \in {"v1", "v2"} : EvalStart(v)
    \/ EvalCaseBegin
    \/ EvalCaseScore
    \/ EvalEnd
    \/ \E resp \in Responses(1) : V1Dispatch(resp)
    \/ \E resp \in Responses(1) : V2FirstDispatch(resp)
    \/ \E resp \in Responses(2) : V2SecondDispatch(resp)

Spec == Init /\ [][Next]_vars

\* the notebook after its definition cells ran, with one question in
\* `question` and one content of eval_questions.csv
SetupDoneOneFile ==
    /\ SetupDone
    /\ question = "How many orders were shipped to Brazil?"
    /\ eval_df = [i \in 1..NCases |->
                     [Question |-> "How many orders were shipped to Brazil?",
                      Answer   |-> "SELECT COUNT(*) FROM Orders"]]

InitLive ==
    /\ SetupDoneOneFile
    /\ cmp_left = NoDf
    /\ cmp_right = NoDf
    /\ cmp_value = "none"
    /\ open_conns = <<>>
    /\ last_call = NoHelperCall

\* the step of a run that waits for a model response
Dispatch ==
    \/ \E resp \in Responses(1) : V1Dispatch(resp)
    \/ \E resp \in Responses(1) : V2FirstDispatch(resp)
    \/ \E resp \in Responses(2) : V2SecondDispatch(resp)

\* every model call and every database call returns: a run that waits for
\* a response gets one and goes on
SpecLive == InitLive /\ [][Next]_vars /\ WF_vars(Dispatch)

mainVars == <<db, SYSTEM_PROMPT_v1, question, eval_df, nbVars, runVars,
              histVars, ddlExecuted>>

(***************************************************************************)
(* The comparison cell on its own:                                         *)
(* (df_true.to_numpy() == df_v1.to_numpy()).all() applied to any two       *)
(* frames read_data can return, up to MaxDim rows and MaxDim columns.      *)
(***************************************************************************)
CellValues   == {1, 2, NaN}
ColumnLabels == {"a", "b"}

\* the frames of r rows and c columns
FramesOf(r, c) ==
    {Frame(cols, rows) : cols \in [1..c -> ColumnLabels],
                         rows \in [1..r -> [1..c -> CellValues]]}

InitCompare ==
    /\ SetupDoneOneFile
    /\ \E r \in 0..MaxDim, c \in 1..MaxDim : cmp_left \in FramesOf(r, c)
    /\ \E r \in 0..MaxDim, c \in 1..MaxDim : cmp_right \in FramesOf(r, c)
    /\ cmp_value = "none"
    /\ open_conns = <<>>
    /\ last_call = NoHelperCall

CompareCell ==
    /\ cmp_value = "none"
    /\ cmp_value' = IF CompareRaises(cmp_left, cmp_right) THEN "raise"
                    ELSE IF CompareAll(cmp_left, cmp_right) THEN "True"
                    ELSE "False"
    /\ UNCHANGED <<cmp_left, cmp_right, connVars, mainVars>>

NextCompare == CompareCell

SpecCompare == InitCompare /\ [][NextCompare]_vars

(***************************************************************************)
(* The two helpers called directly, any number of times in any order, and  *)
(* the connections they leave behind.  sqlite3.connect opens a connection; *)
(* conn.close() closes it; a connection that was not closed stays open     *)
(* until the interpreter finalises the unreachable object.                 *)
(***************************************************************************)
Conn(fn, query) == [fn |-> fn, query |-> query]

\* get_schema: connect, two queries, return -- there is no conn.close()
get_schema_conns(conns) == Append(conns, Conn("get_schema", ""))

\* read_data: connect, pd.read_sql_query, conn.close(), return -- the close
\* is skipped when pd.read_sql_query raises
read_data_conns(conns, query, out) ==
    IF out.kind = "raise" THEN Append(conns, Conn("read_data", query))
    ELSE conns

\* conns without its k-th connection
Without(conns, k) ==
    SubSeq(conns, 1, k - 1) \o SubSeq(conns, k + 1, Len(conns))

InitConn ==
    /\ SetupDoneOneFile
    /\ cmp_left = NoDf
    /\ cmp_right = NoDf
    /\ cmp_value = "none"
    /\ open_conns = <<>>
    /\ last_call = NoHelperCall

CallGetSchema ==
    /\ Len(open_conns) < MaxOpenConns
    /\ open_conns' = get_schema_conns(open_conns)
    /\ last_call' = [fn |-> "get_schema", query |-> "",
                     kind |-> PyStr(get_schema(db))]
    /\ UNCHANGED <<cmpVars, mainVars>>

CallReadData(query) ==
    /\ Len(open_conns) < MaxOpenConns
    /\ LET r == read_data(query, db)
       IN  /\ db' = r.db
           /\ ddlExecuted' = (ddlExecuted \/ query \in SqlDdl)
           /\ open_conns' = read_data_conns(open_conns, query, r.out)
           /\ last_call' = [fn |-> "read_data", query |-> query,
                            kind |-> r.out.kind]
    /\ UNCHANGED <<cmpVars, SYSTEM_PROMPT_v1, question, eval_df, nbVars,
                   runVars, histVars>>

\* the interpreter finalises a connection object nothing refers to
Finalize ==
    /\ \E k \in 1..Len(open_conns) : open_conns' = Without(open_conns, k)
    /\ UNCHANGED <<last_call, cmpVars, mainVars>>

NextConn ==
    \/ CallGetSchema
    \/ \E query \in SqlTexts : CallReadData(query)
    \/ Finalize

SpecConn == InitConn /\ [][NextConn]_vars

(***************************************************************************)
(* Vocabulary of the properties.                                           *)
(***************************************************************************)
RunEnded == pc = "ended"
RunIsV1  == trace # <<>> /\ trace[1].tools = ToolsV1
RunIsV2  == trace # <<>> /\ trace[1].tools = ToolsV2

Count(ev) == Cardinality({k \in 1..Len(trace) : trace[k].ev = ev})

HasCalls(m) == m.role = "assistant" /\ m.tool_calls # <<>>
Names(m, n) == HasCalls(m) /\ m.tool_calls[1].function.name = n

\* the model's first response and the last response the run consumed
FirstResponse == messages[3]
LastResponse  == messages[Len(messages)]

\* the last response was consumed by the final dispatch of the run: the only
\* response of get_result_v1, the second response of get_result_v2
AtFinalDispatch ==
    RunEnded /\ ((RunIsV1 /\ Len(messages) = 3) \/ (RunIsV2 /\ Len(messages) = 5))

Malformed(arguments) ==
    ~arguments.wellformed \/ ~\E m \in arguments.members : m[1] = "query"

EvalOver == cell = "eval" /\ status # "running"

(***************************************************************************)
(* C1.  Every run of get_result_v2 whose first response names read_data    *)
(* first (with arguments that parse and a query the database answers)      *)
(* executes that query, returns the pair (sql, result) and makes no second *)
(* model call.                                                             *)
(***************************************************************************)
C1_EarlyTerminalReturnsPair ==
    (/\ RunEnded /\ RunIsV2
     /\ Names(FirstResponse, "read_data")
     /\ FirstResponse.tool_calls[1].function.arguments
            \in {ArgsQuery(s) : s \in SqlSelect \ {"SELECT COUNT(*) FROM Orders"}})
    => LET sql == json_loads_query(FirstResponse.tool_calls[1].function.arguments).sql
       IN  /\ outcome = Returned(sql, SelectResult(sql, db))
           /\ Count("model_call") = 1
           /\ \E k \in 1..Len(trace) : trace[k] = SqlRun(sql)

(***************************************************************************)
(* C2.  A case whose reference SQL raises a database error is a miss, the  *)
(* batch does not abort and the later cases are processed: an evaluation   *)
(* cell always ends by printing its count, with every case visited.        *)
(***************************************************************************)
C2_ReferenceFailureIsAMiss ==
    EvalOver => /\ status = "done"
                /\ printed # <<>>
                /\ \A i \in 1..Len(eval_df) : visits[i] = 1

(***************************************************************************)
(* C3.  The count the evaluation reports is the number of cases whose      *)
(* model result grid equals the ground-truth grid cell by cell.            *)
(***************************************************************************)
C3_CountIsNumberOfEqualGrids ==
    (cell = "eval" /\ status = "done") => printed[1] = n_equal

\* the try body of the current case raises: the orchestrator raised, it
\* returned None (unpacking raises), or the grids cannot be broadcast
TryBodyRaises ==
    \/ outcome.kind \in {"raise", "none"}
    \/ (outcome.kind = "pair" /\ ~Broadcastable(Shape(df_true), Shape(outcome.df)))

\* the loop body of the case at index has begun
CaseInProgress == pc # "none" \/ status = "error"

(***************************************************************************)
(* C4.  When the orchestrator call or the grid comparison of a case raises *)
(* (the orchestrator raised, it returned None so that unpacking raises, or *)
(* the two grids cannot be broadcast), the evaluation loop catches it: the *)
(* counter keeps its value, the cell keeps running and the loop moves to   *)
(* the next case.  The loop never skips or repeats a case: the cases       *)
(* before the current one were each visited once, the later ones not yet,  *)
(* and a batch that prints its count has visited every case exactly once.  *)
(***************************************************************************)
C4_Recovery ==
    /\ [][(cell = "eval" /\ status = "running" /\ RunEnded /\ TryBodyRaises)
            => (/\ n_correct' = n_correct
                /\ index' = index + 1
                /\ cell' = "eval"
                /\ status' = "running"
                /\ pc' = "none")]_vars
    /\ [](cell = "eval" =>
            \A i \in 1..Len(eval_df) :
                visits[i] = IF i < index \/ (i = index /\ CaseInProgress)
                            THEN 1 ELSE 0)
    /\ []((cell = "eval" /\ status = "done") =>
            \A i \in 1..Len(eval_df) : visits[i] = 1)

\* a batch that ran to its end although a try body raised on the way
C4_Witness ==
    /\ cell = "eval" /\ status = "done"
    /\ printed = <<0, Len(eval_df)>>
    /\ \A i \in 1..Len(eval_df) : visits[i] = 1

(***************************************************************************)
(* C5.  When the request the final dispatch looks at (get_result_v1 after  *)
(* its only model call, get_result_v2 after its second) names a tool other *)
(* than read_data, the run ends in an error and executes no SQL.           *)
(***************************************************************************)
C5_UnexpectedToolFails ==
    (AtFinalDispatch /\ HasCalls(LastResponse) /\ ~Names(LastResponse, "read_data"))
    => (outcome.kind = "raise" /\ Count("read_data") = 0)

(***************************************************************************)
(* C6.  A run whose consumed response (the only one of get_result_v1, the  *)
(* first or the second of get_result_v2) carries no tool-invocation        *)
(* request fails with an exception, returns no result and executes no SQL. *)
(***************************************************************************)
C6_MissingInvocationFails ==
    (RunEnded /\ ~HasCalls(LastResponse))
    => (/\ outcome.kind = "raise"
        /\ outcome.exc = "TypeError"
        /\ Count("read_data") = 0)

\* get_result_v2 ended on a second response without any request
C6_Witness ==
    /\ RunEnded /\ RunIsV2 /\ Len(messages) = 5
    /\ ~HasCalls(LastResponse)
    /\ outcome.kind = "raise"

\* a run of get_result_v2 whose first response names get_schema first
SchemaPath ==
    RunIsV2 /\ Len(messages) >= 3 /\ Names(FirstResponse, "get_schema")

(***************************************************************************)
(* C7.  In a run of get_result_v2 whose first response names get_schema    *)
(* first: the schema is read after the first model call; the fourth        *)
(* message is the one tool-role message, with the id of that request and   *)
(* the schema text as content; the second model call comes after it and    *)
(* sends the four messages with both tools; SQL runs only after the second *)
(* response, it is the query argument of that response's first request     *)
(* (which names read_data), and the sql returned is the SQL that ran.      *)
(***************************************************************************)
C7_SchemaPathOrdering ==
    /\ [](SchemaPath =>
            /\ pc \in {"v2_wait2", "ended"}
            /\ Len(messages) = IF pc = "ended" THEN 5 ELSE 4
            /\ messages[4].role = "tool"
            /\ messages[4].tool_call_id = FirstResponse.tool_calls[1].id
            /\ pc = "v2_wait2" => messages[4].content = <<PyStr(get_schema(db))>>
            /\ \A k \in 1..Len(messages) : messages[k].role = "tool" => k = 4
            /\ Len(trace) >= 3
            /\ trace[1] = ModelCall(SubSeq(messages, 1, 2), ToolsV2)
            /\ trace[2] = SchemaRead
            /\ trace[3] = ModelCall(SubSeq(messages, 1, 4), ToolsV2)
            /\ \A k \in 1..Len(trace) : trace[k].ev = "read_data" =>
                   /\ k = 4
                   /\ pc = "ended"
                   /\ Names(messages[5], "read_data")
                   /\ json_loads_query(messages[5].tool_calls[1].function.arguments)
                          = [kind |-> "str", exc |-> "", sql |-> trace[k].sql,
                             df |-> NoDf]
            /\ outcome.kind = "pair" =>
                   (Len(trace) = 4 /\ trace[4] = SqlRun(outcome.sql)))
    /\ [][pc = "v2_wait2" =>
            (SubSeq(messages', 1, 4) = messages /\ SubSeq(trace', 1, 3) = trace)]_vars

\* a run that took the schema path and returned a pair
C7_Witness ==
    /\ SchemaPath /\ RunEnded
    /\ outcome.kind = "pair"
    /\ trace[4] = SqlRun(outcome.sql)

(***************************************************************************)
(* C8.  The question the evaluation loop passes to the orchestrator for a  *)
(* case is that case's own Question.                                       *)
(***************************************************************************)
C8_AsksTheCaseQuestion ==
    \A i \in 1..Len(eval_df) : asked[i] # "" => asked[i] = eval_df[i].Question

C10_MalformedArgumentsRaise ==
    (/\ RunEnded
     /\ Names(LastResponse, "read_data")
     /\ Malformed(LastResponse.tool_calls[1].function.arguments))
    => (/\ outcome.kind = "raise"
        /\ outcome.exc \in {"JSONDecodeError", "KeyError"}
        /\ Count("read_data") = 0)

(***************************************************************************)
(* C11  Value-only comparison: the equality test depends only on the cell  *)
(* values in row/column order.  Of two grids of the same shape, the test   *)
(* says True when every cell of one is the cell of the other at the same   *)
(* place, whatever the column headers, and False when a cell differs.      *)
(***************************************************************************)
C11_ValueOnlyComparison ==
    (cmp_value # "none" /\ Shape(cmp_left) = Shape(cmp_right))
        => (cmp_value = IF to_numpy(cmp_left) = to_numpy(cmp_right)
                        THEN "True" ELSE "False")

RunWaits == pc \in {"v1_wait", "v2_wait1", "v2_wait2"}

(***************************************************************************)
(* C12  Bounded, retry-free runs: a run of get_result_v1 makes exactly one *)
(* model call and at most one SQL execution, and exactly one SQL execution *)
(* when it returns a result; a run of get_result_v2 makes at most two      *)
(* model calls, at most one schema read and at most one SQL execution; and *)
(* when every model call and database call returns, every run terminates.  *)
(***************************************************************************)
C12_BoundedRuns ==
    /\ [](RunIsV1 => /\ Count("model_call") = 1
                      /\ Count("read_data") <= 1
                      /\ (RunEnded /\ outcome.kind = "pair"
                            => Count("read_data") = 1))
    /\ [](RunIsV2 => /\ Count("model_call") <= 2
                      /\ Count("get_schema") <= 1
                      /\ Count("read_data") <= 1)
    /\ (RunWaits ~> RunEnded)

\* a run of get_result_v2 that used its whole budget and returned a result
C12_Witness ==
    /\ RunEnded
    /\ RunIsV2
    /\ Count("model_call") = 2
    /\ Count("get_schema") = 1
    /\ Count("read_data") = 1
    /\ outcome.kind = "pair"

\* what a step of a waiting run added to the trace and, after the response
\* it consumed, to the conversation
NewEvents   == SubSeq(trace', Len(trace) + 1, Len(trace'))
NewMessages == SubSeq(messages', Len(messages) + 2, Len(messages'))
Consumed    == messages'[Len(messages) + 1]

(***************************************************************************)
(* C13  First request only: when a model response carries several tool     *)
(* requests, the step that consumes it acts on the first alone.  Every     *)
(* schema read, SQL execution and tool-role message of that step is the    *)
(* one the first request asks for (its tool name, its query, its id), there*)
(* is at most one of each, and the database changes only by the first      *)
(* request's query, whatever the later requests name.                      *)
(***************************************************************************)
C13_FirstRequestOnly ==
    [][(RunWaits /\ Len(messages') > Len(messages)
                /\ Len(Consumed.tool_calls) >= 2)
        => LET first == Consumed.tool_calls[1]
               reads(ev) == {k \in 1..Len(NewEvents) : NewEvents[k].ev = ev}
               tools == {k \in 1..Len(NewMessages) :
                            NewMessages[k].role = "tool"}
           IN  /\ \A k \in reads("get_schema") :
                      first.function.name = "get_schema"
               /\ \A k \in reads("read_data") :
                      /\ first.function.name = "read_data"
                      /\ <<"query", NewEvents[k].sql>>
                             \in first.function.arguments.members
               /\ \A k \in tools :
                      /\ first.function.name = "get_schema"
                      /\ NewMessages[k].tool_call_id = first.id
                      /\ NewMessages[k].name = first.function.name
               /\ Cardinality(reads("get_schema")) <= 1
               /\ Cardinality(reads("read_data")) <= 1
               /\ Cardinality(tools) <= 1
               /\ (db' # db => reads("read_data") # {})
      ]_vars

\* a first response asked for the schema and, second, for DROP TABLE: the
\* schema was read and sent, no SQL ran, the table is still there
C13_Witness ==
    /\ RunIsV2
    /\ pc = "v2_wait2"
    /\ Len(FirstResponse.tool_calls) = 2
    /\ FirstResponse.tool_calls[1].function.name = "get_schema"
    /\ FirstResponse.tool_calls[2].function.name = "read_data"
    /\ Count("get_schema") = 1
    /\ Count("read_data") = 0
    /\ messages[4].role = "tool"
    /\ messages[4].tool_call_id = FirstResponse.tool_calls[1].id
    /\ "Orders" \in db.tables

(***************************************************************************)
(* C14  Connection lifecycle: after every call of get_schema or read_data  *)
(* returns or raises, the connection that call opened is closed, so between*)
(* calls no connection is open.                                            *)
(***************************************************************************)
C14_NoOpenConnectionBetweenCalls == open_conns = <<>>

\* the system prompt of the run in progress
RunPrompt == IF RunIsV1 THEN SYSTEM_PROMPT_v1 ELSE SYSTEM_PROMPT_v2

(***************************************************************************)
(* C15  Conversation is append-only and per-run: a step of a run only adds *)
(* messages at the end of the list, every earlier message keeping its      *)
(* place and content; the system instruction and the user question are the *)
(* first two messages throughout the run; and every run starts from        *)
(* exactly these two messages, with nothing of an earlier run.             *)
(***************************************************************************)
C15_AppendOnlyPerRun ==
    /\ [][RunWaits => /\ Len(messages') > Len(messages)
                      /\ SubSeq(messages', 1, Len(messages)) = messages]_vars
    /\ [](pc # "none" => /\ Len(messages) >= 2
                         /\ messages[1] = Message("system", RunPrompt)
                         /\ messages[2] = Message("user", <<user_question>>))
    /\ [][(pc = "none" /\ pc' # "none")
            => /\ Len(messages') = 2
               /\ messages'[1].role = "system"
               /\ messages'[2] = Message("user", <<user_question'>>)]_vars

\* a later run, after a run that dropped the table, has grown its own
\* conversation to four messages
C15_Witness ==
    /\ pc = "v2_wait2"
    /\ ddlExecuted
    /\ Len(messages) = 4
    /\ messages[1] = Message("system", SYSTEM_PROMPT_v2)
    /\ messages[2] = Message("user", <<user_question>>)
    /\ messages[3].role = "assistant"
    /\ messages[4].role = "tool"

\* the schema text inside the system instruction of a get_result_v1 run
EmbeddedSchema == messages[1].content[2]

(***************************************************************************)
(* C16  Schema freshness in SinglePass: in every run of get_result_v1 with *)
(* its default system prompt, the schema text embedded in the system       *)
(* instruction is the schema of the database as it is during that run,     *)
(* also when the schema changed after the prompt constant was defined.     *)
(***************************************************************************)
C16_SchemaFreshInV1 ==
    (RunIsV1 /\ pc = "v1_wait") => EmbeddedSchema = PyStr(get_schema(db))

=============================================================================
